---- MODULE Spec2Model ----
\* Model of src/modestr.rs: the chmod mode-string parser `parse`, which
\* accepts either an octal numeral or a symbolic mode ("u=rwX,go=rX").
\* A string is a sequence of one-character strings.  One action of the
\* model is one step of `parse`: the call, the octal attempt, one iteration head of
\* the `for` loop, one evaluation of a ParseState arm inside the `while`
\* loop, and the end-of-input finalization.
EXTENDS Integers, Sequences, FiniteSets, TLC

VARIABLES mode, pc, pos, state, done_with_char, symbolic, clause, action, result

vars == <<mode, pc, pos, state, done_with_char, symbolic, clause, action, result>>

\* ------------------------------------------------------------------
\* Characters
\* ------------------------------------------------------------------
Subjects  == {"u", "g", "o", "a"}
Operators == {"+", "-", "="}
Perms     == {"r", "w", "x", "X", "s", "t"}
OctDigits == {"0", "1", "2", "3", "4", "5", "6", "7"}

\* char::to_digit(8) on an octal digit
DigitVal(ch) ==
    CASE ch = "0" -> 0 [] ch = "1" -> 1 [] ch = "2" -> 2 [] ch = "3" -> 3
      [] ch = "4" -> 4 [] ch = "5" -> 5 [] ch = "6" -> 6 [] ch = "7" -> 7

\* ------------------------------------------------------------------
\* u32::from_str_radix(mode, 8)
\* A u32 is kept as two 16-bit limbs [hi, lo] (value = hi * 2^16 + lo), so
\* that the 32-bit width and its overflow are exact.
\* ------------------------------------------------------------------
LimbBase == 65536

U32Zero == [hi |-> 0, lo |-> 0]

ParseErr == [ok |-> FALSE, val |-> U32Zero]

\* MulAdd with wrapping arithmetic: overflow is not reported
MulAddWrapping(acc, d) ==
    LET lo8 == acc.lo * 8 + d
        hi8 == acc.hi * 8 + (lo8 \div LimbBase)
    IN  [ok |-> TRUE, val |-> [hi |-> hi8 % LimbBase, lo |-> lo8 % LimbBase]]

\* MulAdd with the overflow limit of a signed 32-bit integer
MulAddSigned(acc, d) ==
    LET lo8 == acc.lo * 8 + d
        hi8 == acc.hi * 8 + (lo8 \div LimbBase)
    IN  [ok |-> hi8 < LimbBase \div 2, val |-> [hi |-> hi8 % LimbBase, lo |-> lo8 % LimbBase]]

\* result.checked_mul(8) then checked_add(digit); ok = FALSE on overflow
MulAdd(acc, d) ==
    LET lo8 == acc.lo * 8 + d
        hi8 == acc.hi * 8 + (lo8 \div LimbBase)
    IN  [ok |-> hi8 < LimbBase, val |-> [hi |-> hi8 % LimbBase, lo |-> lo8 % LimbBase]]

RECURSIVE Accumulate(_, _, _)
Accumulate(digits, i, acc) ==
    IF i > Len(digits) THEN [ok |-> TRUE, val |-> acc]
    ELSE IF digits[i] \notin OctDigits THEN ParseErr
    ELSE \* r is bound by the set constructor, so each step is computed once
         CHOOSE out \in {IF r.ok THEN Accumulate(digits, i + 1, r.val) ELSE ParseErr :
                            r \in {MulAdd(acc, DigitVal(digits[i]))}} : TRUE

\* FromStrRadix8 that reads the empty string as zero
FromStrRadix8EmptyZero(src) ==
    IF Len(src) = 0 THEN [ok |-> TRUE, val |-> U32Zero]
    ELSE IF Len(src) = 1 /\ src[1] \in {"+", "-"} THEN ParseErr
    ELSE IF src[1] = "+" THEN Accumulate(Tail(src), 1, U32Zero)
    ELSE Accumulate(src, 1, U32Zero)

\* Empty input, a lone sign, a non-digit and an overflow are errors; one
\* leading '+' is accepted, a leading '-' is not (the type is unsigned).
FromStrRadix8(src) ==
    IF Len(src) = 0 THEN ParseErr
    ELSE IF Len(src) = 1 /\ src[1] \in {"+", "-"} THEN ParseErr
    ELSE IF src[1] = "+" THEN Accumulate(Tail(src), 1, U32Zero)
    ELSE Accumulate(src, 1, U32Zero)

\* the ChmodActionOp an operator character stands for
OpName(ch) == CASE ch = "+" -> "Add" [] ch = "-" -> "Remove" [] ch = "=" -> "Set"

\* ------------------------------------------------------------------
\* Data model
\* ------------------------------------------------------------------
ChmodActionNew ==
    [op |-> "Set", copy_user |-> FALSE, copy_group |-> FALSE, copy_others |-> FALSE,
     read |-> FALSE, write |-> FALSE, execute |-> FALSE, execute_dir |-> FALSE,
     setuid |-> FALSE, sticky |-> FALSE, dirty |-> FALSE]

ChmodClauseNew ==
    [user |-> FALSE, group |-> FALSE, others |-> FALSE, actions |-> <<>>, dirty |-> FALSE]

ChmodSymbolicNew == [clauses |-> <<>>]

NoResult == [tag |-> "None"]

Absolute(m) == [tag |-> "Absolute", m |-> m]

Symbolic(s) == [tag |-> "Symbolic", s |-> s]

Err(ch) == [tag |-> "Err", c |-> ch]

\* the character the for loop is at
c == mode[pos]

\* ------------------------------------------------------------------
\* Inputs
\* ------------------------------------------------------------------
MaxLen == 3

ShortAlphabet == {"u", "g", "a", "+", "-", "=", "r", "X", ",", "#", "7"}

RECURSIVE StringsUpTo(_, _)
StringsUpTo(alphabet, n) ==
    IF n = 0 THEN {<<>>}
    ELSE LET shorter == StringsUpTo(alphabet, n - 1)
         IN  shorter \cup {Append(s, ch) : s \in {t \in shorter : Len(t) = n - 1}, ch \in alphabet}

\* every string of at most MaxLen characters over ShortAlphabet
ShortInputs == StringsUpTo(ShortAlphabet, MaxLen)

\* lists of up to n segments of pool, joined by ','
RECURSIVE CommaLists(_, _)
CommaLists(pool, n) ==
    IF n = 1 THEN pool
    ELSE LET shorter == CommaLists(pool, n - 1)
         IN  shorter \cup {s \o <<",">> \o seg : s \in shorter, seg \in pool}

MaxSegs == 2

PermPool == {<<>>, <<"r", "w", "X">>, <<"r", "X">>, <<"x", "s", "t", "w">>}

\* clauses <subjects from u,g,o> '=' <permission letters>
FormSegs == {who \o <<"=">> \o perms :
                who \in {<<>>, <<"u">>, <<"g", "o">>, <<"o", "u", "g">>}, perms \in PermPool}

FormInputs == CommaLists(FormSegs, MaxSegs)

\* well-formed and malformed clauses, among them the documented examples
MixedSegs ==
    {<<>>, <<"u">>, <<"+", "t">>, <<"o", "-", "s">>,
     <<"a", "+", "r">>, <<"u", "g", "=", "r", "w">>, <<"u", "+", "x">>,
     <<"g", "=", "u">>, <<"u", "+", "r", "-", "w">>, <<"o", "=", "g", "o", "+", "t">>,
     <<"g", "=", "u", "r">>, <<"u", "u", "-", "x", "x">>,
     <<"u", "=", "r", "w", "#", "g", "=", "r">>, <<"7", "5", "5">>, <<"8">>}

MixedInputs == CommaLists(MixedSegs, MaxSegs)

MaxChain == 2

\* k actions <operator><permission letters>
RECURSIVE ActionLists(_)
ActionLists(k) ==
    IF k = 0 THEN {<<>>}
    ELSE {al \o <<op>> \o perms :
             al \in ActionLists(k - 1), op \in Operators,
             perms \in {<<>>, <<"r">>, <<"w">>, <<"X", "x", "s", "t">>}}

ChainInputs ==
    {who \o al : who \in {<<>>, <<"u">>, <<"a">>, <<"g", "o">>},
                 al \in UNION {ActionLists(k) : k \in 1..MaxChain}}

MaxDigits == 10

\* octal numerals up to and past the 32-bit limit
OctalInputs ==
    {head \o [i \in 1..n |-> d] :
        head \in {<<>>, <<"1">>, <<"3">>, <<"4">>, <<"7">>, <<"0", "0">>, <<"+">>, <<"-">>},
        d \in {"0", "7"}, n \in 0..MaxDigits}

Inputs == ShortInputs \cup FormInputs \cup MixedInputs \cup ChainInputs \cup OctalInputs

\* ------------------------------------------------------------------
\* parse
\* ------------------------------------------------------------------
Init ==
    /\ mode = <<>>
    /\ pc = "call"
    /\ pos = 0
    /\ state = "Wholist"
    /\ done_with_char = FALSE
    /\ symbolic = ChmodSymbolicNew
    /\ clause = ChmodClauseNew
    /\ action = ChmodActionNew
    /\ result = NoResult

\* pub fn parse(mode: &str): the caller passes the mode string
Call ==
    /\ pc = "call"
    /\ \E m \in Inputs : mode' = m
    /\ pc' = "start"
    /\ UNCHANGED <<pos, state, done_with_char, symbolic, clause, action, result>>

\* match u32::from_str_radix(mode, 8): Ok(m) returns Absolute(m)
TryAbsolute ==
    /\ pc = "start"
    /\ LET r == FromStrRadix8(mode)
       IN  IF r.ok
           THEN /\ result' = Absolute(r.val)
                /\ pc' = "done"
           ELSE /\ result' = result
                /\ pc' = "for"
    /\ UNCHANGED <<mode, pos, state, done_with_char, symbolic, clause, action>>

\* for c in mode.chars() { done_with_char = false; ...
NextChar ==
    /\ pc = "for"
    /\ IF pos < Len(mode)
       THEN /\ pos' = pos + 1
            /\ done_with_char' = FALSE
            /\ pc' = "while"
       ELSE /\ pc' = "final"
            /\ UNCHANGED <<pos, done_with_char>>
    /\ UNCHANGED <<mode, state, symbolic, clause, action, result>>

\* the while loop's test after an arm has run
LoopPc(done) == IF done THEN "for" ELSE "while"

\* Wholist that records a subject letter without marking the clause dirty
WholistNotDirty ==
    /\ pc = "while"
    /\ state = "Wholist"
    /\ IF c \in Subjects
       THEN /\ clause' = CASE c = "u" -> [clause EXCEPT !.user = TRUE]
                           [] c = "g" -> [clause EXCEPT !.group = TRUE]
                           [] c = "o" -> [clause EXCEPT !.others = TRUE]
                           [] c = "a" -> [clause EXCEPT !.user = TRUE, !.group = TRUE,
                                                        !.others = TRUE]
            /\ done_with_char' = TRUE
            /\ state' = state
       ELSE /\ state' = "Actionlist"
            /\ done_with_char' = FALSE
            /\ clause' = [clause EXCEPT !.dirty = FALSE]
    /\ pc' = LoopPc(done_with_char')
    /\ UNCHANGED <<mode, pos, symbolic, action, result>>

\* Wholist whose catch-all arm does not leave the state
WholistStays ==
    /\ pc = "while"
    /\ state = "Wholist"
    /\ IF c \in Subjects
       THEN /\ clause' = CASE c = "u" -> [clause EXCEPT !.dirty = TRUE, !.user = TRUE]
                           [] c = "g" -> [clause EXCEPT !.dirty = TRUE, !.group = TRUE]
                           [] c = "o" -> [clause EXCEPT !.dirty = TRUE, !.others = TRUE]
                           [] c = "a" -> [clause EXCEPT !.dirty = TRUE, !.user = TRUE,
                                                        !.group = TRUE, !.others = TRUE]
            /\ done_with_char' = TRUE
            /\ state' = state
       ELSE /\ state' = state
            /\ done_with_char' = FALSE
            /\ clause' = [clause EXCEPT !.dirty = FALSE]
    /\ pc' = LoopPc(done_with_char')
    /\ UNCHANGED <<mode, pos, symbolic, action, result>>

\* Wholist in which 'a' leaves `others` alone
WholistANoOthers ==
    /\ pc = "while"
    /\ state = "Wholist"
    /\ IF c \in Subjects
       THEN /\ clause' = CASE c = "u" -> [clause EXCEPT !.dirty = TRUE, !.user = TRUE]
                           [] c = "g" -> [clause EXCEPT !.dirty = TRUE, !.group = TRUE]
                           [] c = "o" -> [clause EXCEPT !.dirty = TRUE, !.others = TRUE]
                           [] c = "a" -> [clause EXCEPT !.dirty = TRUE, !.user = TRUE, !.group = TRUE]
            /\ done_with_char' = TRUE
            /\ state' = state
       ELSE /\ state' = "Actionlist"
            /\ done_with_char' = FALSE
            /\ clause' = [clause EXCEPT !.dirty = FALSE]
    /\ pc' = LoopPc(done_with_char')
    /\ UNCHANGED <<mode, pos, symbolic, action, result>>

Wholist ==
    /\ pc = "while"
    /\ state = "Wholist"
    /\ IF c = "u" THEN
            /\ clause' = [clause EXCEPT !.dirty = TRUE, !.user = TRUE]
            /\ done_with_char' = TRUE
            /\ state' = state
       ELSE IF c = "g" THEN
            /\ clause' = [clause EXCEPT !.dirty = TRUE, !.group = TRUE]
            /\ done_with_char' = TRUE
            /\ state' = state
       ELSE IF c = "o" THEN
            /\ clause' = [clause EXCEPT !.dirty = TRUE, !.others = TRUE]
            /\ done_with_char' = TRUE
            /\ state' = state
       ELSE IF c = "a" THEN
            /\ clause' = [clause EXCEPT !.dirty = TRUE, !.user = TRUE,
                                        !.group = TRUE, !.others = TRUE]
            /\ done_with_char' = TRUE
            /\ state' = state
       ELSE /\ state' = "Actionlist"
            /\ done_with_char' = FALSE
            /\ clause' = [clause EXCEPT !.dirty = FALSE]
    /\ pc' = LoopPc(done_with_char')
    /\ UNCHANGED <<mode, pos, symbolic, action, result>>

\* Actionlist that records '-' as Add
ActionlistMinusAsAdd ==
    /\ pc = "while"
    /\ state = "Actionlist"
    /\ IF c \in Operators THEN
            /\ action' = [action EXCEPT !.dirty = TRUE,
                             !.op = CASE c = "+" -> "Add" [] c = "-" -> "Add" [] c = "=" -> "Set"]
            /\ done_with_char' = TRUE
            /\ state' = "ListOrCopy"
            /\ UNCHANGED <<symbolic, clause>>
       ELSE /\ action' = [action EXCEPT !.dirty = FALSE]
            /\ done_with_char' = FALSE
            /\ symbolic' = [symbolic EXCEPT !.clauses = Append(@, clause)]
            /\ clause' = ChmodClauseNew
            /\ state' = "NextClause"
    /\ pc' = LoopPc(done_with_char')
    /\ UNCHANGED <<mode, pos, result>>

\* Actionlist whose catch-all arm puts the clause at the front
ActionlistPrepends ==
    /\ pc = "while"
    /\ state = "Actionlist"
    /\ IF c \in Operators THEN
            /\ action' = [action EXCEPT !.dirty = TRUE,
                             !.op = CASE c = "+" -> "Add" [] c = "-" -> "Remove" [] c = "=" -> "Set"]
            /\ done_with_char' = TRUE
            /\ state' = "ListOrCopy"
            /\ UNCHANGED <<symbolic, clause>>
       ELSE /\ action' = [action EXCEPT !.dirty = FALSE]
            /\ done_with_char' = FALSE
            /\ symbolic' = [symbolic EXCEPT !.clauses = <<clause>> \o @]
            /\ clause' = ChmodClauseNew
            /\ state' = "NextClause"
    /\ pc' = LoopPc(done_with_char')
    /\ UNCHANGED <<mode, pos, result>>

\* Actionlist whose catch-all arm commits the clause only when it is dirty
ActionlistCommitIfDirty ==
    /\ pc = "while"
    /\ state = "Actionlist"
    /\ IF c \in Operators THEN
            /\ action' = [action EXCEPT !.dirty = TRUE,
                             !.op = CASE c = "+" -> "Add" [] c = "-" -> "Remove" [] c = "=" -> "Set"]
            /\ done_with_char' = TRUE
            /\ state' = "ListOrCopy"
            /\ UNCHANGED <<symbolic, clause>>
       ELSE /\ action' = [action EXCEPT !.dirty = FALSE]
            /\ done_with_char' = FALSE
            /\ symbolic' = IF clause.dirty
                           THEN [symbolic EXCEPT !.clauses = Append(@, clause)]
                           ELSE symbolic
            /\ clause' = ChmodClauseNew
            /\ state' = "NextClause"
    /\ pc' = LoopPc(done_with_char')
    /\ UNCHANGED <<mode, pos, result>>

Actionlist ==
    /\ pc = "while"
    /\ state = "Actionlist"
    /\ IF c = "+" THEN
            /\ action' = [action EXCEPT !.dirty = TRUE, !.op = "Add"]
            /\ done_with_char' = TRUE
            /\ state' = "ListOrCopy"
            /\ UNCHANGED <<symbolic, clause>>
       ELSE IF c = "-" THEN
            /\ action' = [action EXCEPT !.dirty = TRUE, !.op = "Remove"]
            /\ done_with_char' = TRUE
            /\ state' = "ListOrCopy"
            /\ UNCHANGED <<symbolic, clause>>
       ELSE IF c = "=" THEN
            /\ action' = [action EXCEPT !.dirty = TRUE, !.op = "Set"]
            /\ done_with_char' = TRUE
            /\ state' = "ListOrCopy"
            /\ UNCHANGED <<symbolic, clause>>
       ELSE /\ action' = [action EXCEPT !.dirty = FALSE]
            /\ done_with_char' = FALSE
            /\ symbolic' = [symbolic EXCEPT !.clauses = Append(@, clause)]
            /\ clause' = ChmodClauseNew
            /\ state' = "NextClause"
    /\ pc' = LoopPc(done_with_char')
    /\ UNCHANGED <<mode, pos, result>>

ListOrCopy ==
    /\ pc = "while"
    /\ state = "ListOrCopy"
    /\ state' = IF c \in {"u", "g", "o"} THEN "PermCopy" ELSE "PermList"
    /\ pc' = LoopPc(done_with_char)
    /\ UNCHANGED <<mode, pos, done_with_char, symbolic, clause, action, result>>

\* CommitAction that keeps the committed action's fields in the open action
CommitActionKeepsFlags ==
    /\ done_with_char' = FALSE
    /\ clause' = [clause EXCEPT !.actions = Append(@, action), !.dirty = TRUE]
    /\ action' = [action EXCEPT !.dirty = FALSE]
    /\ state' = "Actionlist"

\* the catch-all arm shared by PermCopy and PermList
CommitAction ==
    /\ done_with_char' = FALSE
    /\ clause' = [clause EXCEPT !.actions = Append(@, action), !.dirty = TRUE]
    /\ action' = ChmodActionNew
    /\ state' = "Actionlist"

\* PermCopy that also records permission letters
PermCopyAlsoLiteral ==
    /\ pc = "while"
    /\ state = "PermCopy"
    /\ IF c \in {"u", "g", "o"} \cup Perms
       THEN /\ action' = CASE c = "u" -> [action EXCEPT !.copy_user = TRUE]
                           [] c = "g" -> [action EXCEPT !.copy_group = TRUE]
                           [] c = "o" -> [action EXCEPT !.copy_others = TRUE]
                           [] c = "r" -> [action EXCEPT !.read = TRUE]
                           [] c = "w" -> [action EXCEPT !.write = TRUE]
                           [] c = "x" -> [action EXCEPT !.execute = TRUE]
                           [] c = "X" -> [action EXCEPT !.execute_dir = TRUE]
                           [] c = "s" -> [action EXCEPT !.setuid = TRUE]
                           [] c = "t" -> [action EXCEPT !.sticky = TRUE]
            /\ done_with_char' = TRUE
            /\ UNCHANGED <<state, clause>>
       ELSE CommitAction
    /\ pc' = LoopPc(done_with_char')
    /\ UNCHANGED <<mode, pos, symbolic, result>>

PermCopy ==
    /\ pc = "while"
    /\ state = "PermCopy"
    /\ IF c \in {"u", "g", "o"}
       THEN /\ action' = CASE c = "u" -> [action EXCEPT !.copy_user = TRUE]
                           [] c = "g" -> [action EXCEPT !.copy_group = TRUE]
                           [] c = "o" -> [action EXCEPT !.copy_others = TRUE]
            /\ done_with_char' = TRUE
            /\ UNCHANGED <<state, clause>>
       ELSE CommitAction
    /\ pc' = LoopPc(done_with_char')
    /\ UNCHANGED <<mode, pos, symbolic, result>>

\* PermList with 'X' recorded as plain execute
PermListXAsExecute ==
    /\ pc = "while"
    /\ state = "PermList"
    /\ IF c \in Perms
       THEN /\ action' = CASE c = "r" -> [action EXCEPT !.read = TRUE]
                           [] c = "w" -> [action EXCEPT !.write = TRUE]
                           [] c = "x" -> [action EXCEPT !.execute = TRUE]
                           [] c = "X" -> [action EXCEPT !.execute = TRUE]
                           [] c = "s" -> [action EXCEPT !.setuid = TRUE]
                           [] c = "t" -> [action EXCEPT !.sticky = TRUE]
            /\ done_with_char' = TRUE
            /\ UNCHANGED <<state, clause>>
       ELSE CommitAction
    /\ pc' = LoopPc(done_with_char')
    /\ UNCHANGED <<mode, pos, symbolic, result>>

PermList ==
    /\ pc = "while"
    /\ state = "PermList"
    /\ IF c \in Perms
       THEN /\ action' = CASE c = "r" -> [action EXCEPT !.read = TRUE]
                           [] c = "w" -> [action EXCEPT !.write = TRUE]
                           [] c = "x" -> [action EXCEPT !.execute = TRUE]
                           [] c = "X" -> [action EXCEPT !.execute_dir = TRUE]
                           [] c = "s" -> [action EXCEPT !.setuid = TRUE]
                           [] c = "t" -> [action EXCEPT !.sticky = TRUE]
            /\ done_with_char' = TRUE
            /\ UNCHANGED <<state, clause>>
       ELSE CommitAction
    /\ pc' = LoopPc(done_with_char')
    /\ UNCHANGED <<mode, pos, symbolic, result>>

\* NextClause that skips a character other than ','
NextClauseLenient ==
    /\ pc = "while"
    /\ state = "NextClause"
    /\ done_with_char' = TRUE
    /\ state' = "Wholist"
    /\ pc' = "for"
    /\ result' = result
    /\ UNCHANGED <<mode, pos, symbolic, clause, action>>

\* NextClause that reports the first character of the input
NextClauseFirstChar ==
    /\ pc = "while"
    /\ state = "NextClause"
    /\ IF c # ","
       THEN /\ result' = Err(mode[1])
            /\ pc' = "done"
            /\ UNCHANGED <<state, done_with_char>>
       ELSE /\ done_with_char' = TRUE
            /\ state' = "Wholist"
            /\ pc' = "for"
            /\ result' = result
    /\ UNCHANGED <<mode, pos, symbolic, clause, action>>

NextClause ==
    /\ pc = "while"
    /\ state = "NextClause"
    /\ IF c # ","
       THEN /\ result' = Err(c)
            /\ pc' = "done"
            /\ UNCHANGED <<state, done_with_char>>
       ELSE /\ done_with_char' = TRUE
            /\ state' = "Wholist"
            /\ pc' = "for"
            /\ result' = result
    /\ UNCHANGED <<mode, pos, symbolic, clause, action>>

\* ClauseAtEnd that pushes the action without marking the clause dirty
ClauseAtEndNotDirty == IF action.dirty
                       THEN [clause EXCEPT !.actions = Append(@, action)]
                       ELSE clause

\* end of input: commit the open action, then the open clause
ClauseAtEnd == IF action.dirty
               THEN [clause EXCEPT !.actions = Append(@, action), !.dirty = TRUE]
               ELSE clause

\* Finalize that pushes the clause only when it holds an action
FinalizeNeedsAction ==
    /\ pc = "final"
    /\ clause' = ClauseAtEnd
    /\ symbolic' = IF clause'.actions # <<>>
                   THEN [symbolic EXCEPT !.clauses = Append(@, clause')]
                   ELSE symbolic
    /\ result' = Symbolic(symbolic')
    /\ pc' = "done"
    /\ UNCHANGED <<mode, pos, state, done_with_char, action>>

\* Finalize that pushes the clause whether or not it is dirty
FinalizeAlwaysPushes ==
    /\ pc = "final"
    /\ clause' = ClauseAtEnd
    /\ symbolic' = [symbolic EXCEPT !.clauses = Append(@, clause')]
    /\ result' = Symbolic(symbolic')
    /\ pc' = "done"
    /\ UNCHANGED <<mode, pos, state, done_with_char, action>>

Finalize ==
    /\ pc = "final"
    /\ clause' = ClauseAtEnd
    /\ symbolic' = IF clause'.dirty
                   THEN [symbolic EXCEPT !.clauses = Append(@, clause')]
                   ELSE symbolic
    /\ result' = Symbolic(symbolic')
    /\ pc' = "done"
    /\ UNCHANGED <<mode, pos, state, done_with_char, action>>

Next ==
    \/ Call
    \/ TryAbsolute
    \/ NextChar
    \/ Wholist
    \/ Actionlist
    \/ ListOrCopy
    \/ PermCopy
    \/ PermList
    \/ NextClause
    \/ Finalize

Spec == Init /\ [][Next]_vars

\* ------------------------------------------------------------------
\* parse as a function of its input: the same code, computed as one
\* value, so that the results of two calls can be compared.  A scan state
\* is the record of the locals; err is TRUE after `return Err`.
\* ------------------------------------------------------------------
ScanStart ==
    [state |-> "Wholist", done |-> FALSE, err |-> FALSE,
     symbolic |-> ChmodSymbolicNew, clause |-> ChmodClauseNew, action |-> ChmodActionNew]

\* one evaluation of `match state` on the character ch
ArmOf(st, ch) ==
    CASE st.state = "Wholist" ->
           IF ch \in Subjects
           THEN [st EXCEPT !.done = TRUE,
                           !.clause = [@ EXCEPT !.dirty = TRUE,
                                                !.user = @ \/ ch \in {"u", "a"},
                                                !.group = @ \/ ch \in {"g", "a"},
                                                !.others = @ \/ ch \in {"o", "a"}]]
           ELSE [st EXCEPT !.done = FALSE, !.state = "Actionlist", !.clause.dirty = FALSE]
      [] st.state = "Actionlist" ->
           IF ch \in Operators
           THEN [st EXCEPT !.done = TRUE, !.state = "ListOrCopy",
                           !.action = [@ EXCEPT !.dirty = TRUE, !.op = OpName(ch)]]
           ELSE [st EXCEPT !.done = FALSE, !.state = "NextClause",
                           !.action.dirty = FALSE,
                           !.symbolic.clauses = Append(@, st.clause),
                           !.clause = ChmodClauseNew]
      [] st.state = "ListOrCopy" ->
           [st EXCEPT !.state = IF ch \in {"u", "g", "o"} THEN "PermCopy" ELSE "PermList"]
      [] st.state = "PermCopy" ->
           IF ch \in {"u", "g", "o"}
           THEN [st EXCEPT !.done = TRUE,
                           !.action = [@ EXCEPT !.copy_user = @ \/ ch = "u",
                                                !.copy_group = @ \/ ch = "g",
                                                !.copy_others = @ \/ ch = "o"]]
           ELSE [st EXCEPT !.done = FALSE, !.state = "Actionlist",
                           !.clause = [@ EXCEPT !.actions = Append(@, st.action), !.dirty = TRUE],
                           !.action = ChmodActionNew]
      [] st.state = "PermList" ->
           IF ch \in Perms
           THEN [st EXCEPT !.done = TRUE,
                           !.action = [@ EXCEPT !.read = @ \/ ch = "r",
                                                !.write = @ \/ ch = "w",
                                                !.execute = @ \/ ch = "x",
                                                !.execute_dir = @ \/ ch = "X",
                                                !.setuid = @ \/ ch = "s",
                                                !.sticky = @ \/ ch = "t"]]
           ELSE [st EXCEPT !.done = FALSE, !.state = "Actionlist",
                           !.clause = [@ EXCEPT !.actions = Append(@, st.action), !.dirty = TRUE],
                           !.action = ChmodActionNew]
      [] st.state = "NextClause" ->
           IF ch # ","
           THEN [st EXCEPT !.err = TRUE]
           ELSE [st EXCEPT !.done = TRUE, !.state = "Wholist"]

\* while !done_with_char { match state ... } on one character
RECURSIVE WhileOf(_, _)
WhileOf(st, ch) ==
    CHOOSE out \in {IF n.err \/ n.done THEN n ELSE WhileOf(n, ch) : n \in {ArmOf(st, ch)}} : TRUE

\* for c in mode.chars(), from the i-th character on
RECURSIVE ForOf(_, _, _)
ForOf(s, i, st) ==
    IF i > Len(s) \/ st.err THEN st
    ELSE CHOOSE out \in {IF n.err THEN [n EXCEPT !.done = FALSE] ELSE ForOf(s, i + 1, [n EXCEPT !.done = FALSE]) :
                            n \in {WhileOf(st, s[i])}} : TRUE

\* the character at which the scan of s stopped with an error
RECURSIVE ErrCharOf(_, _, _)
ErrCharOf(s, i, st) ==
    CHOOSE out \in {IF n.err THEN s[i] ELSE ErrCharOf(s, i + 1, [n EXCEPT !.done = FALSE]) :
                       n \in {WhileOf(st, s[i])}} : TRUE

\* end of input on the scan state st
FinalOf(st) ==
    LET cl == IF st.action.dirty
              THEN [st.clause EXCEPT !.actions = Append(@, st.action), !.dirty = TRUE]
              ELSE st.clause
    IN  IF cl.dirty THEN [st.symbolic EXCEPT !.clauses = Append(@, cl)] ELSE st.symbolic

ParseOf(s) ==
    CHOOSE out \in {IF r.ok THEN Absolute(r.val)
                    ELSE CHOOSE o2 \in {IF st.err THEN Err(ErrCharOf(s, 1, ScanStart))
                                       ELSE Symbolic(FinalOf(st)) :
                                           st \in {ForOf(s, 1, ScanStart)}} : TRUE :
                       r \in {FromStrRadix8(s)}} : TRUE

\* parse runs to completion once called: it is sequential code with no
\* blocking call, so a step that is enabled is eventually taken
FairSpec == Spec /\ WF_vars(Next)

\* ------------------------------------------------------------------
\* Properties
\* ------------------------------------------------------------------
IsOctalString(s) == Len(s) > 0 /\ \A i \in 1..Len(s) : s[i] \in OctDigits

\* bit k (bit 0 is the least significant) of the base-8 numeral s: each
\* digit contributes three bits
BitOf(s, k) ==
    IF k >= 3 * Len(s) THEN 0
    ELSE (DigitVal(s[Len(s) - (k \div 3)]) \div (2 ^ (k % 3))) % 2

RECURSIVE LimbOf(_, _, _)
LimbOf(s, from, j) ==
    IF j = 16 THEN 0 ELSE BitOf(s, from + j) * (2 ^ j) + LimbOf(s, from, j + 1)

FitsU32(s) == \A k \in 32..(3 * Len(s)) : BitOf(s, k) = 0

OctalValue(s) == [hi |-> LimbOf(s, 16, 0), lo |-> LimbOf(s, 0, 0)]

Untouched ==
    /\ pos = 0
    /\ state = "Wholist"
    /\ symbolic = ChmodSymbolicNew
    /\ clause = ChmodClauseNew
    /\ action = ChmodActionNew

\* C1: a non-empty string of octal digits whose value fits 32 bits is
\* returned as Absolute(its base-8 value), and the symbolic state machine
\* never runs on it: no character is read, no clause or action is built.
C1_OctalIsAbsolute ==
    (IsOctalString(mode) /\ FitsU32(mode)) =>
        /\ pc \in {"start", "done"}
        /\ Untouched
        /\ pc = "done" => result = Absolute(OctalValue(mode))

\* the largest 32-bit value, 37777777777, has been returned
C1_Witness ==
    /\ pc = "done"
    /\ IsOctalString(mode) /\ FitsU32(mode) /\ Len(mode) = 11
    /\ result = Absolute([hi |-> 65535, lo |-> 65535])

\* --- comma-separated segments of an input ---------------------------
CommaPositions(s) == {i \in 1..Len(s) : s[i] = ","}

NumSegments(s) == Cardinality(CommaPositions(s)) + 1

NthComma(s, n) ==
    CHOOSE i \in CommaPositions(s) : Cardinality({j \in CommaPositions(s) : j <= i}) = n

Segment(s, k) ==
    LET first == IF k = 1 THEN 1 ELSE NthComma(s, k - 1) + 1
        last  == IF k = NumSegments(s) THEN Len(s) ELSE NthComma(s, k) - 1
    IN  SubSeq(s, first, last)

Letters(s, from, to) == {s[j] : j \in from..to}

\* <subject letters from u,g,o> '=' <permission letters>
IsFormSeg(seg) ==
    \E k \in 1..Len(seg) :
        /\ seg[k] = "="
        /\ Letters(seg, 1, k - 1) \subseteq {"u", "g", "o"}
        /\ Letters(seg, k + 1, Len(seg)) \subseteq Perms

IsFormInput(s) == \A k \in 1..NumSegments(s) : IsFormSeg(Segment(s, k))

FormPerms(seg) ==
    LET k == CHOOSE i \in 1..Len(seg) : seg[i] = "=" IN Letters(seg, k + 1, Len(seg))

\* the literal flags of action a are exactly the letters of the set ps
LiteralFlagsAre(a, ps) ==
    /\ a.read = ("r" \in ps)
    /\ a.write = ("w" \in ps)
    /\ a.execute = ("x" \in ps)
    /\ a.execute_dir = ("X" \in ps)
    /\ a.setuid = ("s" \in ps)
    /\ a.sticky = ("t" \in ps)

NoCopyFlag(a) == ~a.copy_user /\ ~a.copy_group /\ ~a.copy_others

SubjectsAre(cl, ws) ==
    /\ cl.user = ("u" \in ws)
    /\ cl.group = ("g" \in ws)
    /\ cl.others = ("o" \in ws)

TestModeInput == <<"u", "=", "r", "w", "X", ",", "g", "o", "=", "r", "X">>

\* C2: a comma-separated list of clauses <u,g,o letters>=<permission
\* letters> parses to one clause per segment, in order, each with exactly
\* one Set action whose literal flags are exactly the segment's permission
\* letters and whose copy flags are false; "u=rwX,go=rX" gives
\* {user} Set{read,write,execute_dir} and {group,others} Set{read,execute_dir}.
C2_SetClauses ==
    (pc = "done" /\ IsFormInput(mode)) =>
        /\ result.tag = "Symbolic"
        /\ Len(result.s.clauses) = NumSegments(mode)
        /\ \A k \in 1..NumSegments(mode) :
              LET cl == result.s.clauses[k] IN
                /\ Len(cl.actions) = 1
                /\ cl.actions[1].op = "Set"
                /\ LiteralFlagsAre(cl.actions[1], FormPerms(Segment(mode, k)))
                /\ NoCopyFlag(cl.actions[1])
        /\ mode = TestModeInput =>
              /\ SubjectsAre(result.s.clauses[1], {"u"})
              /\ LiteralFlagsAre(result.s.clauses[1].actions[1], {"r", "w", "X"})
              /\ SubjectsAre(result.s.clauses[2], {"g", "o"})
              /\ LiteralFlagsAre(result.s.clauses[2].actions[1], {"r", "X"})

\* "u=rwX,go=rX" has been parsed to two clauses
C2_Witness ==
    /\ pc = "done"
    /\ mode = TestModeInput
    /\ result.tag = "Symbolic"
    /\ Len(result.s.clauses) = 2
    /\ result.s.clauses[1].actions[1].execute_dir

Returned == pc = "done"

\* C3: every clause of a returned Specification has at least one action.
C3_ActionsNeverEmpty ==
    (Returned /\ result.tag = "Symbolic") =>
        \A k \in 1..Len(result.s.clauses) : Len(result.s.clauses[k].actions) >= 1

\* C4: in a successful symbolic parse whose comma-separated segments each
\* hold a subject or action character, the number of clauses equals the
\* number of segments.
HasClauseChar(seg) == \E i \in 1..Len(seg) : seg[i] \in Subjects \cup Operators \cup Perms

EverySegmentFilled(s) == \A k \in 1..NumSegments(s) : HasClauseChar(Segment(s, k))

C4_ClausesEqualSegments ==
    (Returned /\ result.tag = "Symbolic" /\ EverySegmentFilled(mode)) =>
        Len(result.s.clauses) = NumSegments(mode)

\* a successful parse of several segments, one of them without an operator
C4_Witness ==
    /\ Returned /\ result.tag = "Symbolic" /\ EverySegmentFilled(mode)
    /\ NumSegments(mode) >= 2
    /\ \E k \in 1..NumSegments(mode) : Letters(Segment(mode, k), 1, Len(Segment(mode, k))) \subseteq Subjects
    /\ Len(result.s.clauses) = NumSegments(mode)

StrayInput == <<"u", "=", "r", "w", "#", "g", "=", "r">>

\* C5: an error is returned exactly when NextClause is evaluated on a
\* character other than ','; no other state returns one, and the error
\* carries that character ("u=rw#g=r" fails with '#').
C5_ErrorOnlyInNextClause ==
    [][ /\ (result'.tag = "Err" /\ result.tag # "Err") =>
              /\ pc = "while" /\ state = "NextClause"
              /\ c # ","
              /\ result' = Err(c)
        /\ (pc = "while" /\ state = "NextClause" /\ c # ",") =>
              (result'.tag = "Err" /\ pc' = "done")
        /\ (pc' = "done" /\ mode = StrayInput) => result' = Err("#")
      ]_vars

\* "u=rw#g=r" has failed on '#', the fifth character
C5_Witness ==
    /\ Returned /\ mode = StrayInput
    /\ result = Err("#") /\ pos = 5 /\ state = "NextClause"

\* --- operators of an input -----------------------------------------
OpPositions(s) == {i \in 1..Len(s) : s[i] \in Operators}

NthOp(s, n) ==
    CHOOSE i \in OpPositions(s) : Cardinality({j \in OpPositions(s) : j <= i}) = n

OpOf(ch) == CASE ch = "+" -> "Add" [] ch = "-" -> "Remove" [] ch = "=" -> "Set"

\* the characters after the n-th operator, up to the next operator, comma or end
RunEnd(s, p) ==
    LET stops == {i \in (p + 1)..Len(s) : s[i] \in Operators \cup {","}}
    IN  IF stops = {} THEN Len(s) ELSE (CHOOSE i \in stops : \A j \in stops : i <= j) - 1

LettersAfterOp(s, n) == Letters(s, NthOp(s, n) + 1, RunEnd(s, NthOp(s, n)))

\* the subject letters at the head of a segment
WhoLetters(seg) ==
    {seg[i] : i \in {j \in 1..Len(seg) : \A h \in 1..j : seg[h] \in Subjects}}

WhoFlagsAre(cl, ws) ==
    /\ cl.user = (ws \cap {"u", "a"} # {})
    /\ cl.group = (ws \cap {"g", "a"} # {})
    /\ cl.others = (ws \cap {"o", "a"} # {})

LastSegment(s) == Segment(s, NumSegments(s))

LastSegmentStart(s) == Len(s) - Len(LastSegment(s)) + 1

\* an operator of the last segment has been consumed and its action is not committed
ActionOpenAtEnd(s) == OpPositions(LastSegment(s)) # {}

Last(q) == q[Len(q)]

\* C6: when the scan reaches the end of the input without error, an open
\* action is appended as the last action of the current clause with the
\* flags recorded so far, and a clause that has a subject flag or an action
\* is appended as the last clause of the Specification: the last segment
\* loses no subject flag and no action.
C6_Finalization ==
    [][ (pc = "final" /\ pc' = "done") =>
          LET acts == IF ActionOpenAtEnd(mode) THEN Append(clause.actions, action)
                      ELSE clause.actions
              kept == clause.user \/ clause.group \/ clause.others \/ acts # <<>>
          IN  /\ result'.tag = "Symbolic"
              /\ ActionOpenAtEnd(mode) => action.dirty
              /\ kept =>
                    /\ result'.s.clauses =
                          Append(symbolic.clauses, [clause EXCEPT !.actions = acts, !.dirty = TRUE])
                    /\ WhoFlagsAre(Last(result'.s.clauses), WhoLetters(LastSegment(mode)))
                    /\ Len(Last(result'.s.clauses).actions) =
                          Cardinality(OpPositions(LastSegment(mode)))
      ]_vars

\* the input ended inside the second clause, after an operator and a
\* permission letter, and both the action and the clause were committed
C6_Witness ==
    /\ Returned /\ result.tag = "Symbolic"
    /\ NumSegments(mode) = 2 /\ state = "PermList" /\ mode[Len(mode)] \in Perms
    /\ Len(result.s.clauses) = 2
    /\ Len(Last(result.s.clauses).actions) >= 1
    /\ Last(Last(result.s.clauses).actions).read
    /\ ~Last(result.s.clauses).user /\ ~Last(result.s.clauses).group /\ ~Last(result.s.clauses).others

RECURSIVE AllActions(_)
AllActions(clauses) ==
    IF clauses = <<>> THEN <<>> ELSE Head(clauses).actions \o AllActions(Tail(clauses))

HasCopyFlag(a) == a.copy_user \/ a.copy_group \/ a.copy_others

CopyInput == <<"u", "+", "x", ",", "g", "=", "u">>

\* C7: in every action of every returned Specification a copy flag excludes
\* all six literal flags, and a copy flag is set only in an action whose
\* operator is immediately followed by u, g or o; "u+x,g=u" gives clause 2
\* a Set action with copy_user and no literal flag.
C7_CopyLiteralDisjoint ==
    (Returned /\ result.tag = "Symbolic") =>
        LET acts == AllActions(result.s.clauses) IN
          /\ \A j \in 1..Len(acts) :
                HasCopyFlag(acts[j]) =>
                  /\ LiteralFlagsAre(acts[j], {})
                  /\ j <= Cardinality(OpPositions(mode))
                  /\ NthOp(mode, j) < Len(mode)
                  /\ mode[NthOp(mode, j) + 1] \in {"u", "g", "o"}
          /\ mode = CopyInput =>
                /\ Len(result.s.clauses) = 2
                /\ Len(result.s.clauses[2].actions) = 1
                /\ result.s.clauses[2].actions[1].op = "Set"
                /\ result.s.clauses[2].actions[1].copy_user
                /\ LiteralFlagsAre(result.s.clauses[2].actions[1], {})

\* "u+x,g=u" has been parsed and its second clause copies from user
C7_Witness ==
    /\ Returned /\ mode = CopyInput /\ result.tag = "Symbolic"
    /\ Len(result.s.clauses) = 2
    /\ result.s.clauses[2].actions[1].copy_user

\* <subject letters>(<operator><permission letters>)^k, k >= 1, no comma
IsChainInput(s) ==
    \E w \in 0..(Len(s) - 1) :
        /\ Letters(s, 1, w) \subseteq Subjects
        /\ s[w + 1] \in Operators
        /\ Letters(s, w + 1, Len(s)) \subseteq Operators \cup Perms

ChainTestInput == <<"u", "+", "r", "-", "w">>

\* C8: a comma-free input <subjects>(<operator><permissions>)^k parses to
\* one clause with k actions, the i-th carrying the i-th operator and
\* exactly the permission letters after it; during the scan an operator
\* commits the open action without committing the clause ("u+r-w" gives
\* Add{read}, Remove{write}).
C8_ChainedOperators ==
    IsChainInput(mode) =>
        /\ ~Returned => symbolic.clauses = <<>>
        /\ pc = "for" =>
              Len(clause.actions) + (IF action.dirty THEN 1 ELSE 0)
                 = Cardinality(OpPositions(SubSeq(mode, 1, pos)))
        /\ Returned =>
              /\ result.tag = "Symbolic"
              /\ Len(result.s.clauses) = 1
              /\ Len(result.s.clauses[1].actions) = Cardinality(OpPositions(mode))
              /\ \A i \in 1..Cardinality(OpPositions(mode)) :
                    LET a == result.s.clauses[1].actions[i] IN
                      /\ a.op = OpOf(mode[NthOp(mode, i)])
                      /\ LiteralFlagsAre(a, LettersAfterOp(mode, i))
                      /\ NoCopyFlag(a)
              /\ mode = ChainTestInput =>
                    /\ result.s.clauses[1].actions[1].op = "Add"
                    /\ LiteralFlagsAre(result.s.clauses[1].actions[1], {"r"})
                    /\ result.s.clauses[1].actions[2].op = "Remove"
                    /\ LiteralFlagsAre(result.s.clauses[1].actions[2], {"w"})

\* "u+r-w" has been parsed to one clause with two actions
C8_Witness ==
    /\ Returned /\ mode = ChainTestInput /\ result.tag = "Symbolic"
    /\ Len(result.s.clauses) = 1
    /\ Len(result.s.clauses[1].actions) = 2

\* C9: in a returned Specification the k-th clause's subject flags are
\* exactly the subject letters at the head of the k-th segment: user iff
\* 'u' or 'a', group iff 'g' or 'a', others iff 'o' or 'a'; none if there
\* is no subject letter ("a+r": all three; "ug=rw": user and group only).
C9_SubjectFlags ==
    (Returned /\ result.tag = "Symbolic") =>
        /\ \A k \in 1..Len(result.s.clauses) :
              /\ k <= NumSegments(mode)
              /\ WhoFlagsAre(result.s.clauses[k], WhoLetters(Segment(mode, k)))
        /\ mode = <<"a", "+", "r">> =>
              /\ Len(result.s.clauses) = 1
              /\ SubjectsAre(result.s.clauses[1], {"u", "g", "o"})
              /\ Len(result.s.clauses[1].actions) = 1
              /\ result.s.clauses[1].actions[1].op = "Add"
              /\ LiteralFlagsAre(result.s.clauses[1].actions[1], {"r"})
        /\ mode = <<"u", "g", "=", "r", "w">> =>
              /\ Len(result.s.clauses) = 1
              /\ SubjectsAre(result.s.clauses[1], {"u", "g"})
              /\ Len(result.s.clauses[1].actions) = 1
              /\ result.s.clauses[1].actions[1].op = "Set"
              /\ LiteralFlagsAre(result.s.clauses[1].actions[1], {"r", "w"})

\* "a+r" has been parsed to a clause for user, group and others
C9_Witness ==
    /\ Returned /\ mode = <<"a", "+", "r">> /\ result.tag = "Symbolic"
    /\ Len(result.s.clauses) = 1
    /\ result.s.clauses[1].user /\ result.s.clauses[1].group /\ result.s.clauses[1].others

\* the order in which a character can be passed from state to state
\* without being consumed
Rank(st) ==
    CASE st = "ListOrCopy" -> 4
      [] st \in {"Wholist", "PermCopy", "PermList"} -> 3
      [] st = "Actionlist" -> 2
      [] st = "NextClause" -> 1

\* C10: parse terminates on every input: the cursor only moves forward,
\* one character at a time; a character that is re-dispatched always goes
\* to a state of lower rank, so it is evaluated at most four times and no
\* cycle of re-dispatches exists; and parse eventually returns.
C10_Terminates ==
    /\ [][ /\ pos' \in {pos, pos + 1}
           /\ pos' <= Len(mode)
           /\ (pc = "while" /\ pc' = "while") =>
                 (pos' = pos /\ Rank(state') < Rank(state))
         ]_vars
    /\ <>Returned

\* a character was evaluated by four states (ListOrCopy, PermList,
\* Actionlist, NextClause) before parse returned an error for it
C10_Witness ==
    /\ Returned /\ result.tag = "Err" /\ state = "NextClause"
    /\ pos >= 2 /\ pos < Len(mode)
    /\ mode[pos - 1] \in Operators
    /\ Len(symbolic.clauses) >= 1
    /\ Len(Last(symbolic.clauses).actions) >= 1

\* C11: no returned Specification contains a clause that has no subject
\* flag and no action: the Actionlist state commits a clause only if it
\* has collected something.
C11_NoEmptyClause ==
    (Returned /\ result.tag = "Symbolic") =>
        \A k \in 1..Len(result.s.clauses) :
            LET cl == result.s.clauses[k] IN
              cl.user \/ cl.group \/ cl.others \/ cl.actions # <<>>

\* C12: the empty string is not an error: parse("") returns Symbolic with
\* zero clauses.
C12_EmptyInput ==
    (Returned /\ mode = <<>>) => result = Symbolic([clauses |-> <<>>])

\* parse("") has returned, having read no character
C12_Witness ==
    /\ Returned /\ mode = <<>> /\ pos = 0
    /\ result.tag = "Symbolic"
    /\ clause = ChmodClauseNew /\ action = ChmodActionNew

\* C13: Absolute is returned only for a non-empty input made solely of
\* octal digits; an input holding a character of the symbolic grammar,
\* such as a leading '+', '-' or '=', is never returned as Absolute.
C13_AbsoluteOnlyOctal ==
    (Returned /\ result.tag = "Absolute") => IsOctalString(mode)

\* C14: in a successful symbolic parse the operators of the committed
\* actions, clause by clause and action by action, are exactly the
\* operator characters of the input from left to right; the k-th clause
\* holds the operators of the k-th segment.
C14_OperatorsConserved ==
    (Returned /\ result.tag = "Symbolic") =>
        LET acts == AllActions(result.s.clauses) IN
          /\ Len(acts) = Cardinality(OpPositions(mode))
          /\ \A j \in 1..Len(acts) : acts[j].op = OpOf(mode[NthOp(mode, j)])
          /\ \A k \in 1..Len(result.s.clauses) :
                Len(result.s.clauses[k].actions) = Cardinality(OpPositions(Segment(mode, k)))

\* two clauses with three different operators have been returned
C14_Witness ==
    /\ Returned /\ result.tag = "Symbolic"
    /\ Len(result.s.clauses) = 2
    /\ {a.op : a \in {AllActions(result.s.clauses)[j] : j \in 1..Len(AllActions(result.s.clauses))}}
          = {"Add", "Remove", "Set"}

GrammarChars == Subjects \cup Operators \cup Perms \cup {","}

\* C15: an input that is not accepted as an octal numeral and holds a
\* character outside u,g,o,a,+,-,=,r,w,x,X,s,t and ',' ends in an error;
\* a successful symbolic parse holds only those characters.
C15_UnknownRejected ==
    (Returned /\ result.tag # "Absolute") =>
        /\ (\E i \in 1..Len(mode) : mode[i] \notin GrammarChars) => result.tag = "Err"
        /\ result.tag = "Symbolic" => \A i \in 1..Len(mode) : mode[i] \in GrammarChars

\* a digit after a well-formed action was rejected
C15_Witness ==
    /\ Returned /\ result.tag = "Err"
    /\ result.c \in OctDigits
    /\ pos >= 3 /\ mode[pos - 1] \in Perms
    /\ \A i \in 1..(pos - 1) : mode[i] \in GrammarChars

IsPrefix(p, q) == Len(p) <= Len(q) /\ SubSeq(q, 1, Len(p)) = p

\* C16: committed data is frozen: the clause sequence of the
\* Specification only grows by one clause appended at the end, the clause
\* appended is the open clause with its actions unchanged, a clause again
\* only grows by an action appended at the end, and the action appended
\* is the open action; what is returned is the sequence so built.
C16_CommittedFrozen ==
    [][ /\ IsPrefix(symbolic.clauses, symbolic'.clauses)
        /\ Len(symbolic'.clauses) <= Len(symbolic.clauses) + 1
        /\ Len(symbolic'.clauses) = Len(symbolic.clauses) + 1 =>
              /\ IsPrefix(clause.actions, Last(symbolic'.clauses).actions)
              /\ SubjectsAre(Last(symbolic'.clauses),
                             {w \in {"u", "g", "o"} :
                                 \/ w = "u" /\ clause.user
                                 \/ w = "g" /\ clause.group
                                 \/ w = "o" /\ clause.others})
        /\ \/ /\ IsPrefix(clause.actions, clause'.actions)
              /\ Len(clause'.actions) <= Len(clause.actions) + 1
              /\ Len(clause'.actions) = Len(clause.actions) + 1 =>
                    Last(clause'.actions) = action
           \/ /\ symbolic'.clauses = Append(symbolic.clauses, clause)
              /\ clause' = ChmodClauseNew
        /\ result'.tag = "Symbolic" => result'.s = symbolic'
      ]_vars

\* a flag is being recorded in the open action while the Specification
\* already holds a clause and the open clause already holds an action
C16_Witness ==
    /\ pc = "for" /\ state = "PermList"
    /\ Len(symbolic.clauses) >= 1 /\ Len(symbolic.clauses[1].actions) >= 1
    /\ Len(clause.actions) >= 1
    /\ action.dirty /\ ~LiteralFlagsAre(action, {})

\* C17: in a successful symbolic parse the number of clauses is the
\* number of commas, plus one if the input is non-empty and does not end
\* in ','; during the scan the clauses committed so far are as many as
\* the commas consumed.
C17_ClausesCountCommas ==
    /\ (Returned /\ result.tag = "Symbolic") =>
          Len(result.s.clauses) =
             Cardinality(CommaPositions(mode))
               + (IF Len(mode) > 0 /\ mode[Len(mode)] # "," THEN 1 ELSE 0)
    /\ pc \in {"for", "final"} =>
          Len(symbolic.clauses) = Cardinality(CommaPositions(SubSeq(mode, 1, pos)))

\* an input ending in ',' after two clauses has been returned
C17_Witness ==
    /\ Returned /\ result.tag = "Symbolic"
    /\ Len(mode) >= 2 /\ mode[Len(mode)] = ","
    /\ Cardinality(CommaPositions(mode)) = 2
    /\ Len(result.s.clauses) = 2
    /\ Len(result.s.clauses[2].actions) >= 1

\* C19: an octal numeral whose value exceeds 32 bits is not returned as
\* Absolute, neither truncated nor wrapped: it goes to the symbolic state
\* machine, where its first character reaches NextClause and parse returns
\* an error naming that digit.
C19_OverflowIsError ==
    (IsOctalString(mode) /\ ~FitsU32(mode)) =>
        /\ result.tag # "Absolute"
        /\ pos <= 1
        /\ Returned =>
              /\ result = Err(mode[1])
              /\ pos = 1 /\ state = "NextClause"

\* 40000000000 (2^32) has been rejected with an error naming '4'
C19_Witness ==
    /\ Returned /\ IsOctalString(mode) /\ ~FitsU32(mode)
    /\ Len(mode) = 11 /\ mode[1] = "4" /\ \A i \in 2..11 : mode[i] = "0"
    /\ result = Err("4")

\* C20: at every character boundary the state is Wholist, ListOrCopy,
\* PermCopy or PermList, never Actionlist or NextClause; the open action
\* is dirty exactly in ListOrCopy, PermCopy and PermList; and in Wholist
\* the open clause is dirty exactly when a subject letter is recorded in it.
C20_BoundaryInvariant ==
    pc \in {"for", "final"} =>
        /\ state \in {"Wholist", "ListOrCopy", "PermCopy", "PermList"}
        /\ action.dirty = (state \in {"ListOrCopy", "PermCopy", "PermList"})
        /\ state = "Wholist" =>
              /\ clause.dirty = (clause.user \/ clause.group \/ clause.others)
              /\ clause.dirty = (WhoLetters(SubSeq(mode, LastSegmentStart(SubSeq(mode, 1, pos)), pos)) # {})
              /\ clause.actions = <<>>

\* the boundary after a subject letter of a second clause
C20_Witness ==
    /\ pc = "for" /\ pos >= 2 /\ state = "Wholist"
    /\ clause.dirty /\ clause.group /\ ~clause.user
    /\ ~action.dirty
    /\ Len(symbolic.clauses) = 1

\* the public fields of a clause sequence (the dirty flags are private)
PublicAction(a) ==
    [op |-> a.op, copy_user |-> a.copy_user, copy_group |-> a.copy_group,
     copy_others |-> a.copy_others, read |-> a.read, write |-> a.write,
     execute |-> a.execute, execute_dir |-> a.execute_dir,
     setuid |-> a.setuid, sticky |-> a.sticky]

PublicClauses(clauses) ==
    [k \in 1..Len(clauses) |->
        [user |-> clauses[k].user, group |-> clauses[k].group, others |-> clauses[k].others,
         actions |-> [j \in 1..Len(clauses[k].actions) |-> PublicAction(clauses[k].actions[j])]]]

\* C18: a trailing comma appends nothing: when a non-empty input s not
\* ending in ',' has parsed to Symbolic, parse(s followed by ',') is
\* Symbolic with the same clauses, subject flags, actions and flags in
\* the same order.  (What a call returns is what parse, taken as a
\* function, gives for its input.)
C18_TrailingComma ==
    Returned =>
        /\ result = ParseOf(mode)
        /\ (Len(mode) > 0 /\ mode[Len(mode)] # "," /\ result.tag = "Symbolic") =>
              LET again == ParseOf(Append(mode, ","))
              IN  /\ again.tag = "Symbolic"
                  /\ PublicClauses(again.s.clauses) = PublicClauses(result.s.clauses)

\* an input that ends inside its second clause has been returned; with a
\* comma added it gives the same two clauses
C18_Witness ==
    /\ Returned /\ result.tag = "Symbolic"
    /\ Len(mode) > 0 /\ mode[Len(mode)] \in Subjects
    /\ Len(result.s.clauses) = 2
    /\ Last(result.s.clauses).actions = <<>>
    /\ Len(result.s.clauses[1].actions) >= 1
    /\ Len(ParseOf(Append(mode, ",")).s.clauses) = 2

====
